---- MODULE Spec2Model ----
(***************************************************************************)
(* Model of the two render-session components of the repository:           *)
(*   "audio"   : src/unnamed/part_000 (audio-reactive plane, play / pause /*)
(*               volume controls)                                          *)
(*   "landing" : src/unnamed/part_001 (landing page background)            *)
(* and of the audio reduction computed inside the audio variant's tick.    *)
(*                                                                         *)
(* Numbers: uTime is in clock units (integers); volumes are hundredths     *)
(* (70 = 0.7); uMouse, the raw pointer and uAudio are exact rationals      *)
(* [n, d] in lowest terms, uAudio carrying a nan flag for JavaScript NaN.  *)
(***************************************************************************)
EXTENDS Integers, Sequences, FiniteSets, Bags, TLC

VARIABLES
    variant,      \* which component is mounted: "audio" or "landing"
    mounted,      \* the component is mounted (its effect has not been cleaned up for good)
    now,          \* performance.now(), in clock units
    container,    \* <<clientWidth, clientHeight>> of the mount element
    cur,          \* the effect run (session) that is current
    sessions,     \* per effect run: the closure state of that run
    rafQueue,     \* the browser's list of animation frame callbacks: [h, s]
    rafSeq,       \* last handle returned by requestAnimationFrame
    view,         \* renderer and camera of the current effect run: [size, presented]
    uniforms,     \* uniformsRef.current: [uTime, uAudio, uMouse]
    mouseRef,     \* mouseRef.current / mouse.current: the raw pointer target
    pointerEvents, \* number of pointer events handled since construction
    analyserRef,  \* analyserRef.current: 0 (null) or the analyser's number
    analysers,    \* number of AudioContext/analyser pairs created so far
    level,        \* magnitude the analyser currently holds for the bass bins
    audioEl,      \* audioElRef.current: [exists, paused, volume]
    isPlaying,    \* React state isPlaying
    volume,       \* React state volume (hundredths)
    plays,        \* bag of the handlePlay invocations in flight: [pc, vol] each
    fault,        \* an exception escaped a cleanup: "none" or its name
    snap,         \* audio reduction alone: the frequency snapshot
    reduced,      \* audio reduction alone: its outcome, [done, value, oob, error]
    smooth,       \* pointer smoothing alone: [c0, k], the start and the steps taken
    shade         \* shader height alone: [uAudio, noise, ripple, done, h]

vars == <<variant, mounted, now, container, cur, sessions, rafQueue, rafSeq, view,
          uniforms, mouseRef, pointerEvents, analyserRef, analysers, level, audioEl,
          isPlaying, volume, plays, fault, snap, reduced, smooth, shade>>

\* What the effect (setup, animate, cleanup) writes
worldVars == <<sessions, rafQueue, rafSeq, view, uniforms, level, fault>>

\* The audio element, the analyser and the handlePlay invocations in flight
audioVars == <<analyserRef, analysers, audioEl, plays>>

\* The pointer target
pointerVars == <<mouseRef, pointerEvents>>

\* The audio reduction checked alone
reduceVars == <<snap, reduced>>

\* The pointer smoothing and the shader height checked alone
pureVars == <<smooth, shade>>

-----------------------------------------------------------------------------
(* Bounds of the model *)

MaxNow == 2          \* the clock is followed up to this time
MaxSessions == 2     \* effect runs followed
MaxPlays == 2        \* handlePlay invocations in flight at once
MaxPointerEvents == 1  \* pointer events followed
MaxBins == 26        \* longest enumerated frequency snapshot (besides 256 bins)
MaxSteps == 3        \* smoothing steps followed toward one target
GridSteps == 4       \* the shader inputs are the multiples of 1/GridSteps in [0, 1]

(* Program constants *)

FftSize == 512            \* analyser.fftSize
MaxMagnitude == 255       \* divisor of the reduction; largest Uint8 magnitude
MinCutoff == 4            \* Math.max(4, ...)
InitialVolume == 70       \* useState(0.7)

FrequencyBinCount == FftSize \div 2

-----------------------------------------------------------------------------
(* Exact rationals *)

Abs(x) == IF x < 0 THEN -x ELSE x

Max(a, b) == IF a >= b THEN a ELSE b

Min(a, b) == IF a <= b THEN a ELSE b

RECURSIVE GCD(_, _)
GCD(a, b) == IF b = 0 THEN a ELSE GCD(b, a % b)

Rat(n, d) ==
    LET g == GCD(Abs(n), Abs(d))
        s == IF d < 0 THEN -1 ELSE 1
    IN  [n |-> (s * n) \div g, d |-> (s * d) \div g]

RZero == [n |-> 0, d |-> 1]

ROne == [n |-> 1, d |-> 1]

LCM(a, b) == (a \div GCD(a, b)) * b

RNeg(a) == [n |-> -a.n, d |-> a.d]

RAdd(a, b) ==
    LET l == LCM(a.d, b.d)
    IN  Rat(a.n * (l \div a.d) + b.n * (l \div b.d), l)

RSub(a, b) == RAdd(a, RNeg(b))

RMul(a, b) ==
    LET g1 == GCD(Abs(a.n), b.d)
        g2 == GCD(Abs(b.n), a.d)
    IN  Rat((a.n \div g1) * (b.n \div g2), (a.d \div g2) * (b.d \div g1))

RLe(a, b) == RSub(a, b).n <= 0

RLt(a, b) == RSub(a, b).n < 0

-----------------------------------------------------------------------------
(* The audio reduction of the tick (part_000, animate) *)

NaN == [nan |-> TRUE, n |-> 0, d |-> 1]

Num(r) == [nan |-> FALSE, n |-> r.n, d |-> r.d]

\* Mutant: a quarter of the bins instead of a fifth
CutoffQuarter(len) == Max(MinCutoff, len \div 4)

\* const cutoff = Math.max(4, Math.floor(len * 0.2))
Cutoff(len) == Max(MinCutoff, len \div 5)

\* for (let i = 0; i < cutoff; i++) sum += dataArrayRef.current[i]
\* A read at an index >= length yields undefined, and sum becomes NaN.
\* The bins lo..hi (1-based) are added by halves, which keeps the evaluation shallow;
\* integer addition is associative and NaN absorbs, so the result is the loop's.
RECURSIVE SumBins(_, _, _)
SumBins(data, lo, hi) ==
    IF lo > hi THEN [nan |-> FALSE, sum |-> 0, oob |-> FALSE]
    ELSE IF lo = hi
         THEN IF lo > Len(data)
              THEN [nan |-> TRUE, sum |-> 0, oob |-> TRUE]
              ELSE [nan |-> FALSE, sum |-> data[lo], oob |-> FALSE]
         ELSE LET mid == (lo + hi) \div 2
                  a == SumBins(data, lo, mid)
                  b == SumBins(data, mid + 1, hi)
              IN  [nan |-> a.nan \/ b.nan,
                   sum |-> IF a.nan \/ b.nan THEN 0 ELSE a.sum + b.sum,
                   oob |-> a.oob \/ b.oob]

\* const avg = sum / cutoff / 255
AudioAvg(data) ==
    LET cutoff == Cutoff(Len(data))
        s == SumBins(data, 1, cutoff)
    IN  [value |-> IF s.nan THEN NaN ELSE Num(Rat(s.sum, cutoff * MaxMagnitude)),
         oob |-> s.oob,
         error |-> "none"]

-----------------------------------------------------------------------------
(* Inputs the environment can deliver *)

Variants == {"audio", "landing"}

FrameGaps == {1, 2}                       \* clock units between two animation frames

Sizes == {<<100, 100>>, <<200, 100>>}     \* container.clientWidth / clientHeight

InitialSize == <<100, 100>>               \* size of the mount element at the first render

\* <<e.clientX, e.clientY>>, rect at (0, 0): inside a canvas 200 wide, beyond the
\* right edge of one 100 wide
PointerSamples == {<<150, 75>>}

Levels == {0, MaxMagnitude}               \* bass magnitude the analyser reports

VolumeInputs == {150}                     \* parseFloat(e.target.value), hundredths

SessionIds == 1 .. MaxSessions

-----------------------------------------------------------------------------
(* Pointer smoothing *)

MouseRateAudio == Rat(8, 100)      \* uMouse.value.lerp(mouseRef.current, 0.08)

MouseRateLanding == Rat(2, 10)     \* uMouse.value.lerp(mouse.current, 0.2)

\* Mutant: the target scaled by alpha is added, the current value not subtracted
LerpCScaled(c, t, alpha) == RAdd(c, RMul(t, alpha))

\* THREE.Vector2.lerp: this.x += (v.x - this.x) * alpha (and y alike)
LerpC(c, t, alpha) == RAdd(c, RMul(RSub(t, c), alpha))

Lerp(c, t, alpha) == [x |-> LerpC(c.x, t.x, alpha), y |-> LerpC(c.y, t.y, alpha)]

Vec0 == [x |-> RZero, y |-> RZero]

\* x = (e.clientX - rect.left) / rect.width; y alike; set(x * 2 - 1, -(y * 2 - 1))
Normalize(cx, cy, size) ==
    [x |-> RSub(RMul(Rat(cx, size[1]), Rat(2, 1)), ROne),
     y |-> RNeg(RSub(RMul(Rat(cy, size[2]), Rat(2, 1)), ROne))]

-----------------------------------------------------------------------------
(* THREE.Clock (autoStart), as used by animate *)

NewClock == [running |-> FALSE, oldTime |-> 0, elapsed |-> 0]

\* Mutant: the time since the previous call (getDelta) instead of the total
GetElapsedTimeDelta(clock, t) ==
    IF ~clock.running
    THEN [running |-> TRUE, oldTime |-> t, elapsed |-> 0]
    ELSE [running |-> TRUE, oldTime |-> t, elapsed |-> t - clock.oldTime]

\* getElapsedTime(): the first call starts the clock and returns 0; later calls
\* add the time since the previous call.
GetElapsedTime(clock, t) ==
    IF ~clock.running
    THEN [running |-> TRUE, oldTime |-> t, elapsed |-> 0]
    ELSE [running |-> TRUE, oldTime |-> t, elapsed |-> clock.elapsed + (t - clock.oldTime)]

-----------------------------------------------------------------------------
(* The effect: setup, animate, cleanup.  These are operators on the record   *)
(* w = [sessions, rafQueue, rafSeq, view, uniforms, level, fault] of what they      *)
(* read and write, so that setup can call animate as the code does.           *)

NoSession ==
    [status |-> "none", ticks |-> 0, clock |-> NewClock, rafId |-> 0,
     observing |-> FALSE, listening |-> FALSE, attached |-> FALSE,
     disposed |-> FALSE]

ZeroUniforms == [uTime |-> 0, uAudio |-> Num(RZero), uMouse |-> Vec0]

\* analyser.getByteFrequencyData(dataArray): 256 bins, the bass bins at lev
Snapshot(lev) ==
    [i \in 1 .. FrequencyBinCount |->
        IF i <= Cutoff(FrequencyBinCount) THEN lev ELSE 0]

\* What the analyser can report on a read: anything while the element plays;
\* while it is paused the smoothed magnitudes only decay.
ReadLevels(el, prev) ==
    IF el.exists /\ ~el.paused THEN Levels ELSE {l \in Levels : l <= prev}

\* requestAnimationFrame(cb): a fresh handle, the callback queued
RequestFrame(w, s) ==
    [w EXCEPT !.rafSeq = w.rafSeq + 1,
              !.rafQueue = Append(w.rafQueue, [h |-> w.rafSeq + 1, s |-> s])]

\* cancelAnimationFrame(id)
CancelFrame(queue, id) == SelectSeq(queue, LAMBDA e : e.h # id)

\* part_000 animate (lines 172-199)
AnimateAudio(s, w, t, m, an, lev) ==
    LET w1 == RequestFrame(w, s)
        clock == GetElapsedTime(w.sessions[s].clock, t)
    IN  [w1 EXCEPT
            !.sessions[s].rafId = w1.rafSeq,
            !.sessions[s].clock = clock,
            !.sessions[s].ticks = @ + 1,
            !.view.presented = w.view.size,
            !.uniforms = [uTime |-> clock.elapsed,
                          uMouse |-> Lerp(w.uniforms.uMouse, m, MouseRateAudio),
                          uAudio |-> IF an # 0
                                     THEN AudioAvg(Snapshot(lev)).value
                                     ELSE w.uniforms.uAudio],
            !.level = IF an # 0 THEN lev ELSE w.level]

\* part_001 animate (lines 176-181): the handle is not kept, no uniform is written
AnimateLanding(s, w) ==
    LET w1 == RequestFrame(w, s)
    IN  [w1 EXCEPT !.sessions[s].ticks = @ + 1,
                   !.view.presented = w.view.size]

Animate(v, s, w, t, m, an, lev) ==
    IF v = "audio" THEN AnimateAudio(s, w, t, m, an, lev) ELSE AnimateLanding(s, w)

\* The effect body up to the first animate() call: renderer, uniforms,
\* ResizeObserver, pointer listener, clock.
Construct(s, w, sz) ==
    [w EXCEPT !.sessions[s] =
                  [status |-> "running", ticks |-> 0, clock |-> NewClock, rafId |-> 0,
                   observing |-> TRUE, listening |-> TRUE, attached |-> TRUE,
                   disposed |-> FALSE],
              !.view = [size |-> sz, presented |-> <<0, 0>>],
              !.uniforms = ZeroUniforms]

\* part_000 effect (lines 78-200): animate() once
SetupAudio(s, w, sz, t, m, an, lev) ==
    AnimateAudio(s, Construct(s, w, sz), t, m, an, lev)

\* part_001 effect (lines 95-184): animate() is called twice.  The body is taken
\* from line 100 on, with container the mount element (the file never declares
\* it) and uniformsRef / mouse the component's refs.
SetupLanding(s, w, sz) ==
    AnimateLanding(s, AnimateLanding(s, Construct(s, w, sz)))

Setup(v, s, w, sz, t, m, an, lev) ==
    IF v = "audio" THEN SetupAudio(s, w, sz, t, m, an, lev) ELSE SetupLanding(s, w, sz)

\* Mutant: the cleanup without cancelAnimationFrame(rafId)
CleanupAudioNoCancel(s, w) ==
    [w EXCEPT !.sessions[s].status = "torn",
              !.sessions[s].observing = FALSE,
              !.sessions[s].listening = FALSE,
              !.sessions[s].disposed = TRUE,
              !.sessions[s].attached = FALSE]

\* part_000 cleanup (lines 203-211); removeChild is inside try/catch
CleanupAudio(s, w) ==
    [w EXCEPT !.sessions[s].status = "torn",
              !.sessions[s].observing = FALSE,
              !.sessions[s].listening = FALSE,
              !.rafQueue = CancelFrame(w.rafQueue, w.sessions[s].rafId),
              !.sessions[s].disposed = TRUE,
              !.sessions[s].attached = FALSE]

\* part_001 cleanup (lines 187-196); raf is still 0, removeChild is unguarded
CleanupLanding(s, w) ==
    [w EXCEPT !.sessions[s].status = "torn",
              !.rafQueue = CancelFrame(w.rafQueue, w.sessions[s].rafId),
              !.sessions[s].listening = FALSE,
              !.sessions[s].observing = FALSE,
              !.sessions[s].disposed = TRUE,
              !.sessions[s].attached = FALSE,
              !.fault = IF w.sessions[s].attached THEN w.fault ELSE "NotFoundError"]

Cleanup(v, s, w) ==
    IF v = "audio" THEN CleanupAudio(s, w) ELSE CleanupLanding(s, w)

World ==
    [sessions |-> sessions, rafQueue |-> rafQueue, rafSeq |-> rafSeq,
     view |-> view, uniforms |-> uniforms, level |-> level, fault |-> fault]

Install(w) ==
    /\ sessions' = w.sessions
    /\ rafQueue' = w.rafQueue
    /\ rafSeq' = w.rafSeq
    /\ view' = w.view
    /\ uniforms' = w.uniforms
    /\ level' = w.level
    /\ fault' = w.fault

EmptyWorld ==
    [sessions |-> [s \in SessionIds |-> NoSession], rafQueue |-> <<>>, rafSeq |-> 0,
     view |-> [size |-> <<0, 0>>, presented |-> <<0, 0>>],
     uniforms |-> ZeroUniforms, level |-> 0, fault |-> "none"]

NoAudio == [exists |-> FALSE, paused |-> TRUE, volume |-> 0]

NotReduced == [done |-> FALSE, value |-> Num(RZero), oob |-> FALSE, error |-> "none"]

NotSmoothed == [c0 |-> Vec0, k |-> 0]

NotShaded == [uAudio |-> RZero, noise |-> RZero, ripple |-> RZero, done |-> FALSE,
              h |-> RZero]

-----------------------------------------------------------------------------
(* The mounted component: state after the first render and effect run *)

Init ==
    /\ variant \in Variants
    /\ mounted = TRUE
    /\ now = 0
    /\ container = InitialSize
    /\ cur = 1
    /\ mouseRef = Vec0
    /\ pointerEvents = 0
    /\ analyserRef = 0
    /\ analysers = 0
    /\ audioEl = NoAudio
    /\ isPlaying = FALSE
    /\ volume = InitialVolume
    /\ plays = EmptyBag
    /\ snap = <<>>
    /\ reduced = NotReduced
    /\ smooth = NotSmoothed
    /\ shade = NotShaded
    /\ LET w == Setup(variant, 1, EmptyWorld, container, 0, Vec0, 0, 0)
       IN  /\ sessions = w.sessions
           /\ rafQueue = w.rafQueue
           /\ rafSeq = w.rafSeq
           /\ view = w.view
           /\ uniforms = w.uniforms
           /\ level = w.level
           /\ fault = w.fault

\* The callbacks of one animation frame, called in the order they were queued;
\* what they request runs in the next frame.
RECURSIVE RunFrame(_, _, _, _, _, _, _)
RunFrame(batch, v, w, t, m, an, lev) ==
    IF batch = <<>> THEN w
    ELSE RunFrame(Tail(batch), v, Animate(v, Head(batch).s, w, t, m, an, lev),
                  t, m, an, lev)

\* What a read of the analyser in a tick can find
TickLevels ==
    IF analyserRef # 0 /\ variant = "audio" THEN ReadLevels(audioEl, level) ELSE {level}

\* The browser runs an animation frame, d clock units after the previous one
Frame(d, lev) ==
    /\ rafQueue # <<>>
    /\ now + d <= MaxNow
    /\ now' = now + d
    /\ lev \in TickLevels
    /\ Install(RunFrame(rafQueue, variant, [World EXCEPT !.rafQueue = <<>>],
                        now + d, mouseRef, analyserRef, lev))
    /\ UNCHANGED <<variant, mounted, container, cur, isPlaying, volume, pointerVars,
                   audioVars, reduceVars, pureVars>>

\* Mutant: onResize that also cancels the scheduled tick
OnResizeRestart(sz) ==
    /\ mounted
    /\ sz # container
    /\ container' = sz
    /\ view' = IF sessions[cur].observing THEN [view EXCEPT !.size = sz] ELSE view
    /\ rafQueue' = CancelFrame(rafQueue, sessions[cur].rafId)
    /\ UNCHANGED <<variant, mounted, now, cur, isPlaying, volume, sessions,
                   rafSeq, uniforms, level, fault, pointerVars, audioVars, reduceVars, pureVars>>

\* The container is resized; the ResizeObserver, while observing, calls onResize
\* (part_000 lines 127-131, part_001 lines 152-159): renderer.setSize, camera.aspect
OnResize(sz) ==
    /\ mounted
    /\ sz # container
    /\ container' = sz
    /\ view' = IF sessions[cur].observing THEN [view EXCEPT !.size = sz] ELSE view
    /\ UNCHANGED <<variant, mounted, now, cur, isPlaying, volume, sessions, rafQueue,
                   rafSeq, uniforms, level, fault, pointerVars, audioVars, reduceVars, pureVars>>

\* onPointer (part_000, lines 136-141) / onPointerMove (part_001, lines 164-170);
\* the canvas gets pointermove events while it is in the document: of a pointer
\* over it, and of a pointer it has captured (a touch that began on it), whose
\* coordinates can lie outside its rectangle.
OnPointer(cx, cy) ==
    /\ pointerEvents < MaxPointerEvents
    /\ sessions[cur].listening /\ sessions[cur].attached
    /\ LET p == Normalize(cx, cy, view.size)
       IN  /\ mouseRef' = p
           /\ uniforms' = IF variant = "landing"
                          THEN [uniforms EXCEPT
                                   !.uMouse = Lerp(uniforms.uMouse, p, MouseRateLanding)]
                          ELSE uniforms
    /\ pointerEvents' = pointerEvents + 1
    /\ UNCHANGED <<variant, mounted, now, container, cur, isPlaying, volume, sessions,
                   rafQueue, rafSeq, view, level, fault, audioVars, reduceVars, pureVars>>

-----------------------------------------------------------------------------
(* Play / pause / volume controls of part_000 *)

AtTimeout(v) == [pc |-> "timeout", vol |-> v]   \* awaiting setTimeout(res, 0)

AtPlay == [pc |-> "play", vol |-> 0]            \* awaiting audio.play()

Aborted == [pc |-> "abort", vol |-> 0]          \* play() promise rejected by pause()

One(p) == SetToBag({p})

\* handlePlay, lines 222-226: the element is created if missing, its volume is
\* set from the volume of the render that built the handler, play() is called.
\* play() refused at once (no user activation) rejects in this same task, and the
\* catch block ends the invocation; otherwise the element leaves the paused state
\* and the invocation waits for the promise.
StartPlayback(rest, v, allowed) ==
    /\ audioEl' = [exists |-> TRUE,
                   paused |-> IF allowed THEN FALSE ELSE
                              (IF audioEl.exists THEN audioEl.paused ELSE TRUE),
                   volume |-> v]
    /\ plays' = IF allowed THEN rest (+) One(AtPlay) ELSE rest

\* The Play button (shown while ~isPlaying): handlePlay up to its first await
ClickPlay(allowed) ==
    /\ variant = "audio" /\ mounted
    /\ ~isPlaying
    /\ BagCardinality(plays) < MaxPlays
    /\ IF analyserRef = 0
       THEN /\ ~allowed
            /\ plays' = plays (+) One(AtTimeout(volume))
            /\ UNCHANGED audioEl
       ELSE StartPlayback(plays, volume, allowed)
    /\ UNCHANGED <<variant, mounted, now, container, cur, isPlaying, volume, worldVars,
                   pointerVars, analyserRef, analysers, reduceVars, pureVars>>

\* handlePlay resumes after await new Promise(res => setTimeout(res, 0))
TimeoutFires(v, allowed) ==
    /\ BagIn(AtTimeout(v), plays)
    /\ StartPlayback(plays (-) One(AtTimeout(v)), v, allowed)
    /\ UNCHANGED <<variant, mounted, now, container, cur, isPlaying, volume, worldVars,
                   pointerVars, analyserRef, analysers, reduceVars, pureVars>>

\* Mutant: the analyser is created after every resolved play()
PlayResolvesAlways ==
    /\ BagIn(AtPlay, plays)
    /\ ~audioEl.paused
    /\ analysers' = analysers + 1
    /\ analyserRef' = analysers + 1
    /\ isPlaying' = (IF mounted THEN TRUE ELSE isPlaying)
    /\ plays' = plays (-) One(AtPlay)
    /\ UNCHANGED <<variant, mounted, now, container, cur, volume, worldVars,
                   pointerVars, audioEl, reduceVars, pureVars>>

\* handlePlay resumes after play() resolved (lines 228-240)
PlayResolves ==
    /\ BagIn(AtPlay, plays)
    /\ ~audioEl.paused
    /\ IF analyserRef = 0
       THEN /\ analysers' = analysers + 1
            /\ analyserRef' = analysers + 1
       ELSE UNCHANGED <<analysers, analyserRef>>
    /\ isPlaying' = (IF mounted THEN TRUE ELSE isPlaying)
    /\ plays' = plays (-) One(AtPlay)
    /\ UNCHANGED <<variant, mounted, now, container, cur, volume, worldVars,
                   pointerVars, audioEl, reduceVars, pureVars>>

\* Mutant: the catch block calls play() again
PlayRejectsRetry(p) ==
    /\ BagIn(p, plays)
    /\ plays' = (plays (-) One(p)) (+) One(AtPlay)
    /\ audioEl' = [audioEl EXCEPT !.paused = FALSE]
    /\ UNCHANGED <<variant, mounted, now, container, cur, isPlaying, volume, worldVars,
                   pointerVars, analyserRef, analysers, reduceVars, pureVars>>

\* handlePlay resumes in its catch block: play() rejected (lines 241-243)
PlayRejects(p) ==
    /\ BagIn(p, plays)
    /\ plays' = plays (-) One(p)
    /\ UNCHANGED <<variant, mounted, now, container, cur, isPlaying, volume, worldVars,
                   pointerVars, analyserRef, analysers, audioEl, reduceVars, pureVars>>

\* pause() on a playing element rejects every pending play promise
AbortPending(b) ==
    IF BagIn(AtPlay, b)
    THEN LET n == CopiesIn(AtPlay, b)
         IN  [p \in (DOMAIN b \ {AtPlay}) \cup {Aborted} |->
                 IF p = Aborted THEN CopiesIn(Aborted, b) + n ELSE b[p]]
    ELSE b

\* Mutant: handlePause without setIsPlaying(false)
ClickPauseKeepsFlag ==
    /\ variant = "audio" /\ mounted
    /\ isPlaying
    /\ IF audioEl.exists
       THEN /\ audioEl' = [audioEl EXCEPT !.paused = TRUE]
            /\ plays' = IF audioEl.paused THEN plays ELSE AbortPending(plays)
       ELSE UNCHANGED <<audioEl, plays>>
    /\ UNCHANGED <<variant, mounted, now, container, cur, isPlaying, volume, worldVars,
                   pointerVars, analyserRef, analysers, reduceVars, pureVars>>

\* The Pause button (shown while isPlaying): handlePause (lines 246-251)
ClickPause ==
    /\ variant = "audio" /\ mounted
    /\ isPlaying
    /\ IF audioEl.exists
       THEN /\ audioEl' = [audioEl EXCEPT !.paused = TRUE]
            /\ plays' = IF audioEl.paused THEN plays ELSE AbortPending(plays)
       ELSE UNCHANGED <<audioEl, plays>>
    /\ isPlaying' = FALSE
    /\ UNCHANGED <<variant, mounted, now, container, cur, volume, worldVars,
                   pointerVars, analyserRef, analysers, reduceVars, pureVars>>

\* const vol = Math.max(0, Math.min(1, v))
ClampVolume(v) == Max(0, Min(100, v))

Volumes == {InitialVolume} \cup {ClampVolume(v) : v \in VolumeInputs}

\* The effect of part_000 depends on [volume]: a render with another volume runs
\* the cleanup of the current effect run and then the effect again.
EffectRerun(w, lev) ==
    Setup(variant, cur + 1, Cleanup(variant, cur, w), container, now, mouseRef,
          analyserRef, lev)

\* The volume slider: handleVolume (lines 253-257), then the render it causes
HandleVolume(v, lev) ==
    /\ variant = "audio" /\ mounted
    /\ LET vol == ClampVolume(v)
       IN  /\ volume' = vol
           /\ audioEl' = IF audioEl.exists THEN [audioEl EXCEPT !.volume = vol]
                         ELSE audioEl
           /\ IF vol # volume
              THEN /\ cur < MaxSessions
                   /\ lev \in TickLevels
                   /\ cur' = cur + 1
                   /\ Install(EffectRerun(World, lev))
              ELSE /\ lev = level
                   /\ UNCHANGED <<cur, worldVars>>
    /\ UNCHANGED <<variant, mounted, now, container, isPlaying, pointerVars,
                   analyserRef, analysers, plays, reduceVars, pureVars>>

\* The component unmounts: React runs the cleanup of the current effect run
Unmount ==
    /\ mounted
    /\ mounted' = FALSE
    /\ Install(Cleanup(variant, cur, World))
    /\ UNCHANGED <<variant, now, container, cur, isPlaying, volume, pointerVars,
                   audioVars, reduceVars, pureVars>>

\* The cleanup function of an effect run already cleaned up is called again
RepeatCleanup(s) ==
    /\ sessions[s].status = "torn"
    /\ Install(Cleanup(variant, s, World))
    /\ UNCHANGED <<variant, mounted, now, container, cur, isPlaying, volume,
                   pointerVars, audioVars, reduceVars, pureVars>>

Next ==
    \/ \E d \in FrameGaps, lev \in Levels : Frame(d, lev)
    \/ \E sz \in Sizes : OnResize(sz)
    \/ \E p \in PointerSamples : OnPointer(p[1], p[2])
    \/ \E allowed \in BOOLEAN : ClickPlay(allowed)
    \/ \E v \in Volumes, allowed \in BOOLEAN : TimeoutFires(v, allowed)
    \/ PlayResolves
    \/ \E p \in {AtPlay, Aborted} : PlayRejects(p)
    \/ ClickPause
    \/ \E v \in VolumeInputs, lev \in Levels : HandleVolume(v, lev)
    \/ Unmount
    \/ \E s \in SessionIds : RepeatCleanup(s)

Spec == Init /\ [][Next]_vars

-----------------------------------------------------------------------------
(* The audio reduction alone, over enumerated frequency snapshots *)

\* A snapshot of len bins: the first k at magnitude a, the others at b
Pattern(len, k, a, b) == [i \in 1 .. len |-> IF i <= k THEN a ELSE b]

Magnitudes == {0, 1, 128, MaxMagnitude}

SnapLengths == (0 .. MaxBins) \cup {FrequencyBinCount}

\* Where the snapshot changes magnitude: anywhere early, after a fifth, at the end
Splits(len) == (0 .. Min(len, MaxBins)) \cup {len \div 5, len}

InitReduce ==
    /\ variant = "audio"
    /\ mounted = FALSE
    /\ now = 0
    /\ container = <<0, 0>>
    /\ cur = 1
    /\ sessions = EmptyWorld.sessions
    /\ rafQueue = <<>>
    /\ rafSeq = 0
    /\ view = EmptyWorld.view
    /\ uniforms = ZeroUniforms
    /\ mouseRef = Vec0
    /\ pointerEvents = 0
    /\ analyserRef = 0
    /\ analysers = 0
    /\ level = 0
    /\ audioEl = NoAudio
    /\ isPlaying = FALSE
    /\ volume = InitialVolume
    /\ plays = EmptyBag
    /\ fault = "none"
    /\ \E len \in SnapLengths : \E k \in Splits(len) : \E a, b \in Magnitudes :
          snap = Pattern(len, k, a, b)
    /\ reduced = NotReduced
    /\ smooth = NotSmoothed
    /\ shade = NotShaded

\* The reduction of lines 183-189 applied to the snapshot; the result is what
\* the tick stores in uAudio.
Reduce ==
    /\ ~reduced.done
    /\ LET r == AudioAvg(snap)
       IN  /\ reduced' = [done |-> TRUE, value |-> r.value, oob |-> r.oob,
                          error |-> r.error]
           /\ uniforms' = [uniforms EXCEPT !.uAudio = r.value]
    /\ UNCHANGED <<variant, mounted, now, container, cur, isPlaying, volume, sessions,
                   rafQueue, rafSeq, view, level, fault, pointerVars, audioVars, snap,
                   pureVars>>

NextReduce == Reduce

SpecReduce == InitReduce /\ [][NextReduce]_vars

-----------------------------------------------------------------------------
(* The pointer smoothing alone: one lerp per step toward a constant target *)

\* The rate of the variant's lerp call
MouseRate(v) == IF v = "audio" THEN MouseRateAudio ELSE MouseRateLanding

\* Components of the start and of the target, in [-1, 1]
PointerGrid == {Rat(i, 2) : i \in -2 .. 2}

PointerVectors == [x : PointerGrid, y : PointerGrid]

\* The component's state with nothing mounted
Detached ==
    /\ mounted = FALSE
    /\ now = 0
    /\ container = <<0, 0>>
    /\ cur = 1
    /\ sessions = EmptyWorld.sessions
    /\ rafQueue = <<>>
    /\ rafSeq = 0
    /\ view = EmptyWorld.view
    /\ pointerEvents = 0
    /\ analyserRef = 0
    /\ analysers = 0
    /\ level = 0
    /\ audioEl = NoAudio
    /\ isPlaying = FALSE
    /\ volume = InitialVolume
    /\ plays = EmptyBag
    /\ fault = "none"

InitLerp ==
    /\ variant \in Variants
    /\ Detached
    /\ mouseRef \in PointerVectors
    /\ \E c \in PointerVectors :
          /\ uniforms = [ZeroUniforms EXCEPT !.uMouse = c]
          /\ smooth = [c0 |-> c, k |-> 0]
    /\ snap = <<>>
    /\ reduced = NotReduced
    /\ shade = NotShaded

\* uMouse.value.lerp(target, rate), as the tick of part_000 (line 177) and the
\* pointer handler of part_001 (line 169) call it
LerpStep ==
    /\ smooth.k < MaxSteps
    /\ uniforms' = [uniforms EXCEPT
                       !.uMouse = Lerp(uniforms.uMouse, mouseRef, MouseRate(variant))]
    /\ smooth' = [smooth EXCEPT !.k = @ + 1]
    /\ UNCHANGED <<variant, mounted, now, container, cur, isPlaying, volume, sessions,
                   rafQueue, rafSeq, view, level, fault, pointerVars, audioVars,
                   reduceVars, shade>>

NextLerp == LerpStep

SpecLerp == InitLerp /\ [][NextLerp]_vars

-----------------------------------------------------------------------------
(* The height of the vertex shader of part_000 alone *)

BaseAmp == Rat(2, 10)          \* float amp = 0.2 + uAudio * 0.9

AmpGain == Rat(9, 10)

RippleScale == Rat(1, 2)       \* float mouseRip = smoothstep(0.7, 0.0, m) * 0.5

RippleBase == Rat(25, 100)     \* mouseRip * (0.25 + uAudio * 0.5)

RippleGain == Rat(1, 2)

\* Mutant: the amplitude with the gain of the fragment shader's pulse (1.2)
HeightPulse(noise, ripple, a) ==
    RAdd(RMul(noise, RAdd(BaseAmp, RMul(a, Rat(12, 10)))),
         RMul(RMul(ripple, RippleScale), RAdd(RippleBase, RMul(a, RippleGain))))

\* float h = noise(uv * 6.0 + warp + t) * amp + mouseRip * (0.25 + uAudio * 0.5),
\* as a function of the noise value, the smoothstep factor and uAudio
Height(noise, ripple, a) ==
    RAdd(RMul(noise, RAdd(BaseAmp, RMul(a, AmpGain))),
         RMul(RMul(ripple, RippleScale), RAdd(RippleBase, RMul(a, RippleGain))))

\* Values of uAudio, of the noise and of the smoothstep factor: a grid of [0, 1]
UnitGrid == {Rat(i, GridSteps) : i \in 0 .. GridSteps}

InitShade ==
    /\ variant = "audio"
    /\ Detached
    /\ uniforms = ZeroUniforms
    /\ mouseRef = Vec0
    /\ snap = <<>>
    /\ reduced = NotReduced
    /\ smooth = NotSmoothed
    /\ \E a \in UnitGrid, n \in UnitGrid, r \in UnitGrid :
          shade = [NotShaded EXCEPT !.uAudio = a, !.noise = n, !.ripple = r]

\* main() of the vertex shader computes h for one vertex
Shade ==
    /\ ~shade.done
    /\ shade' = [shade EXCEPT !.done = TRUE,
                              !.h = Height(shade.noise, shade.ripple, shade.uAudio)]
    /\ UNCHANGED <<variant, mounted, now, container, cur, isPlaying, volume, worldVars,
                   pointerVars, audioVars, reduceVars, smooth>>

NextShade == Shade

SpecShade == InitShade /\ [][NextShade]_vars

-----------------------------------------------------------------------------
(* Properties *)

Pending(s) == \E i \in 1 .. Len(rafQueue) : rafQueue[i].s = s

Torn(s) == sessions[s].status = "torn"

Running(s) == sessions[s].status = "running"

\* A step in which session s executed animate
Ticked(s) == sessions'[s].ticks > sessions[s].ticks

\* In variant v, a session cleaned up has no tick scheduled
NoPendingAfterTeardown(v) ==
    variant = v => \A s \in SessionIds : Torn(s) => ~Pending(s)

\* In variant v, the tick counter of a session cleaned up does not change
TornFrozen(v) ==
    variant = v => \A s \in SessionIds : Torn(s) => sessions'[s].ticks = sessions[s].ticks

\* C1: in the audio variant, once the effect cleanup has run for a session, its
\* scheduled tick is cancelled and animate never executes for it again: the
\* session's tick counter is frozen.
C1_AudioTicksFrozenAfterTeardown ==
    /\ [](NoPendingAfterTeardown("audio"))
    /\ [][TornFrozen("audio")]_vars

\* C1 witness: a session that ticked in animation frames was torn down, and the
\* session that replaced it has run frames since, with pointer and audio input.
C1_Witness ==
    /\ variant = "audio"
    /\ \E s \in SessionIds : Torn(s) /\ sessions[s].ticks >= 2
    /\ Running(cur) /\ sessions[cur].ticks >= 2
    /\ pointerEvents > 0
    /\ analyserRef # 0

\* C2: in the landing variant, the cleanup cancels the scheduled tick and animate
\* never executes after it.
C2_LandingTicksFrozenAfterTeardown ==
    /\ [](NoPendingAfterTeardown("landing"))
    /\ [][TornFrozen("landing")]_vars

\* C3: calling the cleanup of a session already torn down does not fault and
\* leaves the torn-down state as it was: listeners unsubscribed, no tick
\* scheduled, canvas detached (both variants).
C3_TeardownIdempotent ==
    [][\A s \in SessionIds :
          RepeatCleanup(s)
              => /\ fault' = "none"
                 /\ sessions'[s] = sessions[s]
                 /\ ~sessions'[s].listening /\ ~sessions'[s].observing
                 /\ ~sessions'[s].attached
                 /\ rafQueue' = rafQueue
                 /\ \A i \in 1 .. Len(rafQueue') : rafQueue'[i].s # s]_vars

AllBins(data, m) == \A i \in 1 .. Len(data) : data[i] = m

\* The first 20% of the bins at the largest magnitude, the others at 0
BassOnly(data) ==
    \A i \in 1 .. Len(data) :
        data[i] = (IF 5 * i <= Len(data) THEN MaxMagnitude ELSE 0)

\* C4: for a snapshot of at least 4 magnitudes in 0..255, the reduction writes a
\* number in [0,1] into uAudio: 0 when every bin is 0, 1 when every bin is 255,
\* and 1 when the first 20% of 256 bins are 255 and the rest 0.
C4_ReductionInUnitRange ==
    (reduced.done /\ Len(snap) >= 4)
        => /\ uniforms.uAudio = reduced.value
           /\ ~reduced.value.nan
           /\ ~reduced.oob
           /\ reduced.value.d > 0
           /\ 0 <= reduced.value.n /\ reduced.value.n <= reduced.value.d
           /\ AllBins(snap, 0) => reduced.value = Num(RZero)
           /\ AllBins(snap, MaxMagnitude) => reduced.value = Num(ROne)
           /\ (Len(snap) = FrequencyBinCount /\ BassOnly(snap))
                 => reduced.value = Num(ROne)

\* C4 witness: 256 bins, the first 51 at 255 and the rest 0, reduced to 1
C4_Witness ==
    /\ reduced.done
    /\ Len(snap) = FrequencyBinCount
    /\ BassOnly(snap)
    /\ snap[51] = MaxMagnitude /\ snap[52] = 0
    /\ uniforms.uAudio = Num(ROne)

\* C5: on an empty snapshot the reduction fails with InvalidInputError; it reads
\* no bin past the end and writes no NaN into uAudio.
C5_EmptySnapshotRejected ==
    (reduced.done /\ Len(snap) = 0)
        => /\ reduced.error = "InvalidInputError"
           /\ ~reduced.oob
           /\ ~uniforms.uAudio.nan

\* C6: in the audio variant, while no audio session has been started and no
\* pointer event has arrived, every frame has uAudio = 0 and uMouse = (0,0), and
\* each frame of a session has a uTime greater than the frame before it.
C6_IdleFrames ==
    /\ []((variant = "audio" /\ analyserRef = 0 /\ pointerEvents = 0)
            => (uniforms.uAudio = Num(RZero) /\ uniforms.uMouse = Vec0))
    /\ [][(variant = "audio" /\ analyserRef' = 0 /\ pointerEvents' = 0
           /\ cur' = cur /\ Ticked(cur))
            => uniforms'.uTime > uniforms.uTime]_vars

\* C6 witness: three frames of one session without audio or pointer input
C6_Witness ==
    /\ variant = "audio"
    /\ analyserRef = 0 /\ pointerEvents = 0
    /\ sessions[cur].ticks >= 3
    /\ uniforms.uTime >= 2
    /\ uniforms.uAudio = Num(RZero) /\ uniforms.uMouse = Vec0

\* C7: a handleVolume call does not tear down or re-create the render session:
\* the scheduled tick, the frame clock and the uniforms are left as they were.
C7_VolumeKeepsSession ==
    [][(\E v \in VolumeInputs, lev \in Levels : HandleVolume(v, lev))
          => /\ cur' = cur
             /\ sessions' = sessions
             /\ rafQueue' = rafQueue
             /\ uniforms' = uniforms]_vars

\* No audio session is active: the element is missing or paused
AudioInactive == ~audioEl.exists \/ audioEl.paused

\* C8: a tick executed while no audio session is active leaves uAudio = 0.
C8_SilentWhileInactive ==
    [][(variant = "audio" /\ AudioInactive /\ (\E s \in SessionIds : Ticked(s)))
          => uniforms'.uAudio = Num(RZero)]_vars

\* C9: a resize while the session runs sets the renderer size and camera aspect,
\* which the next frame presents, and nothing else: executed ticks, the scheduled
\* tick and the uniforms are unchanged, and the tick stays scheduled.
C9_ResizeOnlyResizes ==
    /\ [][container' # container
            => /\ sessions' = sessions
               /\ rafQueue' = rafQueue /\ rafSeq' = rafSeq
               /\ uniforms' = uniforms
               /\ view'.presented = view.presented
               /\ Running(cur) => (view'.size = container' /\ Pending(cur)')]_vars
    /\ [][(Running(cur) /\ Ticked(cur)) => view'.presented = view.size]_vars

\* C9 witness: a frame presented at the size set by a resize, ticks before and after
C9_Witness ==
    /\ Running(cur)
    /\ container # InitialSize
    /\ view.presented = container
    /\ sessions[cur].ticks >= 3
    /\ Pending(cur)

\* A step in which a handlePlay invocation ends in its catch block
PlayFailed ==
    \/ \E p \in {AtPlay, Aborted} : PlayRejects(p)
    \/ \E v \in Volumes : TimeoutFires(v, FALSE)
    \/ analyserRef # 0 /\ ClickPlay(FALSE)

\* C10: when play() rejects in handlePlay, the render loop is untouched and keeps
\* its tick scheduled, isPlaying is not set, no analyser is installed and play()
\* is not called again; isPlaying is false as long as no start has succeeded, and
\* a new handlePlay invocation begins only with a click on Play.
C10_FailedStartNoRetry ==
    /\ [][PlayFailed
            => /\ isPlaying' = isPlaying
               /\ analyserRef' = analyserRef /\ analysers' = analysers
               /\ UNCHANGED worldVars
               /\ Running(cur) => Pending(cur)'
               /\ BagCardinality(plays') <= BagCardinality(plays)
               /\ CopiesIn(AtPlay, plays') <= CopiesIn(AtPlay, plays)]_vars
    /\ [](analyserRef = 0 => ~isPlaying)
    /\ [][BagCardinality(plays') > BagCardinality(plays)
            => \E allowed \in BOOLEAN : ClickPlay(allowed)]_vars

\* C10 witness: a start was attempted (the element exists), it failed (no
\* analyser, no invocation left in flight) and the session is still ticking
C10_Witness ==
    /\ variant = "audio"
    /\ audioEl.exists /\ analyserRef = 0 /\ plays = EmptyBag
    /\ ~isPlaying
    /\ Running(cur) /\ Pending(cur) /\ sessions[cur].ticks >= 2


RAbs(a) == [n |-> Abs(a.n), d |-> a.d]

RECURSIVE RPow(_, _)
RPow(a, k) == IF k = 0 THEN ROne ELSE RMul(a, RPow(a, k - 1))

\* b lies between a and t, ends included
Between(a, b, t) == (RLe(a, b) /\ RLe(b, t)) \/ (RLe(t, b) /\ RLe(b, a))

\* The distance left to the target is the initial one times (1 - rate)^k
Contracted(c0, c, t, rate, k) ==
    RAbs(RSub(t, c)) = RMul(RAbs(RSub(t, c0)), RPow(RSub(ROne, rate), k))

\* C11: a smoothing step is current + rate * (target - current) with a rate in
\* (0,1]: every component of uMouse after the step lies between its value before
\* and the target, and toward a constant target the distance left after k steps
\* is |target - c0| * (1 - rate)^k; at rate 0.2 from (0,0) toward (0.5,-0.5) one
\* step gives (0.1,-0.1).
C11_LerpConverges ==
    /\ [](/\ RLt(RZero, MouseRate(variant)) /\ RLe(MouseRate(variant), ROne)
          /\ Contracted(smooth.c0.x, uniforms.uMouse.x, mouseRef.x,
                        MouseRate(variant), smooth.k)
          /\ Contracted(smooth.c0.y, uniforms.uMouse.y, mouseRef.y,
                        MouseRate(variant), smooth.k)
          /\ (/\ variant = "landing" /\ smooth = [c0 |-> Vec0, k |-> 1]
              /\ mouseRef = [x |-> Rat(1, 2), y |-> Rat(-1, 2)])
                => uniforms.uMouse = [x |-> Rat(1, 10), y |-> Rat(-1, 10)])
    /\ [][LerpStep
            => /\ Between(uniforms.uMouse.x, uniforms'.uMouse.x, mouseRef.x)
               /\ Between(uniforms.uMouse.y, uniforms'.uMouse.y, mouseRef.y)]_vars

\* C11 witness: at rate 0.08, three steps from (-1, 1) toward (1, -1/2)
C11_Witness ==
    /\ variant = "audio"
    /\ smooth = [c0 |-> [x |-> Rat(-1, 1), y |-> ROne], k |-> 3]
    /\ mouseRef = [x |-> ROne, y |-> Rat(-1, 2)]
    /\ RLt(smooth.c0.x, uniforms.uMouse.x) /\ RLt(uniforms.uMouse.x, mouseRef.x)
    /\ RLt(mouseRef.y, uniforms.uMouse.y) /\ RLt(uniforms.uMouse.y, smooth.c0.y)

\* A step in which a pointer event handler ran
PointerHandled == \E p \in PointerSamples : OnPointer(p[1], p[2])

\* C12: the uniforms are written by the tick alone: a pointer event handler
\* overwrites the raw target and leaves uMouse and every other uniform as they
\* were, and a step that changes a uniform is a step in which a tick executed
\* (both variants).
C12_UniformsWrittenByTickOnly ==
    /\ [][PointerHandled
            => /\ uniforms' = uniforms
               /\ \E p \in PointerSamples : mouseRef' = Normalize(p[1], p[2], view.size)]_vars
    /\ [][uniforms' # uniforms => \E s \in SessionIds : Ticked(s)]_vars

\* Number of callbacks session s has in the browser's animation frame list
PendingCount(s) == Cardinality({i \in 1 .. Len(rafQueue) : rafQueue[i].s = s})

\* C13: a running session has exactly one tick scheduled between ticks, in both
\* variants and whatever events arrive.
C13_OnePendingTick ==
    \A s \in SessionIds : Running(s) => PendingCount(s) = 1

\* C14: when the effect cleanup has run, the audio element is not playing and the
\* analyser created for the session is released.
C14_TeardownReleasesAudio ==
    [][\A s \in SessionIds :
          (Running(s) /\ Torn(s)')
              => /\ audioEl'.exists => audioEl'.paused
                 /\ analyserRef' = 0]_vars

InUnit(a) == RLe(Rat(-1, 1), a) /\ RLe(a, ROne)

\* C15: whatever the client coordinates of a pointer event, the raw target stored
\* by the handler has both components in [-1,1], and so has uMouse in every frame.
C15_PointerInUnitSquare ==
    /\ InUnit(mouseRef.x) /\ InUnit(mouseRef.y)
    /\ InUnit(uniforms.uMouse.x) /\ InUnit(uniforms.uMouse.y)

\* baseAmp + ampGain + rippleMax = 0.2 + 0.9 + 0.375
HeightBound == RAdd(RAdd(BaseAmp, AmpGain), RMul(RippleScale, RAdd(RippleBase, RippleGain)))

\* C16: for uAudio, the noise value and the ripple factor in [0,1], the height of
\* the part_000 vertex shader is in [0, 1.475], 1.475 being 0.2 + 0.9 + 0.375, and
\* it is 1.475 only at uAudio = 1.
C16_HeightBounded ==
    /\ HeightBound = Rat(1475, 1000)
    /\ shade.done
          => /\ RLe(RZero, shade.h) /\ RLe(shade.h, HeightBound)
             /\ shade.h = HeightBound => shade.uAudio = ROne
             /\ (shade.uAudio = ROne /\ shade.noise = ROne /\ shade.ripple = ROne)
                   => shade.h = HeightBound

\* C16 witness: the largest height, at uAudio = 1 with noise and ripple factor 1
C16_Witness ==
    /\ shade.done
    /\ shade.uAudio = ROne /\ shade.noise = ROne /\ shade.ripple = ROne
    /\ shade.h = Rat(1475, 1000)

\* C17: over the component's lifetime at most one AudioContext / analyser is
\* created, whatever the interleaving of handlePlay invocations, handlePause and
\* effect re-runs, and analyserRef, once set, is never replaced.
C17_SingleAnalyser ==
    /\ [](analysers <= 1 /\ analyserRef \in {0, 1})
    /\ [][analyserRef # 0 => analyserRef' = analyserRef]_vars
    /\ [][analysers' # analysers => (analyserRef = 0 /\ PlayResolves)]_vars

\* C17 witness: a first invocation installed the analyser and set isPlaying while
\* the play() of a second one, clicked before, is still pending, after an effect
\* re-run
C17_Witness ==
    /\ analyserRef = 1 /\ analysers = 1
    /\ isPlaying
    /\ BagIn(AtPlay, plays)
    /\ cur > 1

C19_VolumeAgrees ==
    /\ [](0 <= volume /\ volume <= 100)
    /\ []((audioEl.exists /\ plays = EmptyBag) => audioEl.volume = volume)
    /\ [][(\E v \in VolumeInputs, lev \in Levels : HandleVolume(v, lev))
            => /\ isPlaying' = isPlaying
               /\ analyserRef' = analyserRef /\ analysers' = analysers
               /\ \E v \in VolumeInputs : volume' = ClampVolume(v)
               /\ audioEl.exists => audioEl'.volume = volume']_vars
====
